---- MODULE Spec2Model ----
(***************************************************************************)
(* Model of email-to-kg: the pre-classification filter (src/filters.py),  *)
(* the dedup store (src/state.py), the content router (src/router.py) and *)
(* the sync orchestrator (main.py, cmd_sync).                              *)
(*                                                                         *)
(* Text is modelled as a sequence of one-character strings; a file of the  *)
(* knowledge base is modelled by its text.split('\n') view, a non-empty    *)
(* sequence of lines, each line a sequence of tokens.                      *)
(***************************************************************************)
EXTENDS Integers, Sequences, FiniteSets, TLC

VARIABLES
    f_from,     \* filter check: the raw From header of the message
    f_cfg,      \* filter check: the ruleset given to EmailFilter(config)
    f_out,      \* filter check: results of should_process / get_reason
    kb,         \* the knowledge-base tree: existing path -> lines of the file
    r_call,     \* router check: the latest route call (arguments, tree before, result)
    r_calls,    \* router check: number of route calls made
    seen_file,      \* state_dir/seen_emails.json
    last_sync_file, \* state_dir/last_sync.json
    now,            \* the latest reading of datetime.now()
    seen_ids,       \* SyncState.seen_ids of the running command
    pc,             \* cmd_sync: "idle", "loop" (top of the for loop), "routed"
                    \* (route has returned, mark_seen not yet called)
    emails,         \* cmd_sync: the fetched batch
    idx,            \* cmd_sync: position in the batch of the message at hand
    flt_cfg,        \* cmd_sync: config['filters'] of the run
    counts,         \* cmd_sync: new_count, ignored_count, filtered_count, error_count
    rc,             \* return code of the latest command
    h,              \* what the latest loop step did with its message
    calls,          \* invocations in this run: filter, classifier, router, update_last_sync
    applied,        \* completed router writes so far, per fingerprint and path
    runs,           \* commands started
    rejected,       \* fingerprints the filter rejected since the store was last cleared
    marks,          \* the seen set at the start of the run, the fingerprints marked in
                    \* the run, and those whose handling raised and were not marked since
    s_emails,       \* search: the candidate messages
    s_text,         \* search: the natural-language query text, if one was parsed
    s_query,        \* search: the SearchQuery
    s_out,          \* search: what search_emails returned
    i_init,         \* insert check: the file's lines before the first insert
    i_added         \* insert check: the content of every insert so far, in call order

filterVars == <<f_from, f_cfg, f_out>>

routerVars == <<r_call, r_calls>>

storeVars == <<seen_file, last_sync_file, now, seen_ids>>

syncVars ==
    <<pc, emails, idx, flt_cfg, counts, rc, h, calls, applied, runs, rejected, marks>>

searchVars == <<s_emails, s_text, s_query, s_out>>

insertVars == <<i_init, i_added>>

vars ==
    <<f_from, f_cfg, f_out, kb, r_call, r_calls, seen_file, last_sync_file, now,
      seen_ids, pc, emails, idx, flt_cfg, counts, rc, h, calls, applied, runs,
      rejected, marks, s_emails, s_text, s_query, s_out, i_init, i_added>>

(***************************************************************************)
(* Bounds                                                                  *)
(***************************************************************************)
MaxAddrLen == 4
MaxRouteCalls == 2
MaxRuns == 2
MaxStoreOps == 4

(***************************************************************************)
(* Text helpers                                                            *)
(***************************************************************************)
Chars == {"a", "B", "@", "<", ">", " "}

RECURSIVE StringsUpTo(_)
StringsUpTo(n) ==
    IF n = 0 THEN {<<>>}
    ELSE LET shorter == StringsUpTo(n - 1)
         IN  shorter \union {Append(s, c) : s \in {t \in shorter : Len(t) = n - 1}, c \in Chars}

Range(s) == {s[i] : i \in 1..Len(s)}

\* str.lower() on the capital letters of the texts in use
LowerChar(c) ==
    CASE c = "B" -> "b"
      [] c = "A" -> "a"
      [] c = "S" -> "s"
      [] c = "L" -> "l"
      [] OTHER -> c

Lower(s) == [i \in 1..Len(s) |-> LowerChar(s[i])]

IsSpace(c) == c = " "

RECURSIVE LStrip(_)
LStrip(s) == IF s # <<>> /\ IsSpace(Head(s)) THEN LStrip(Tail(s)) ELSE s

RECURSIVE RStrip(_)
RStrip(s) ==
    IF s # <<>> /\ IsSpace(s[Len(s)]) THEN RStrip(SubSeq(s, 1, Len(s) - 1)) ELSE s

Strip(s) == LStrip(RStrip(s))

IsPrefixAt(p, s, i) ==
    /\ i + Len(p) - 1 <= Len(s)
    /\ \A k \in 1..Len(p) : s[i + k - 1] = p[k]

Contains(s, p) == \E i \in 1..(Len(s) + 1) : IsPrefixAt(p, s, i)

(***************************************************************************)
(* src/filters.py : EmailFilter                                            *)
(***************************************************************************)
None == <<"None">>

\* EmailFilter.__init__: mode kept as given, domains and addresses lowercased
\* into sets, patterns compiled with re.IGNORECASE in list order.
EmailFilter(config) ==
    [mode      |-> config.mode,
     domains   |-> {Lower(d) : d \in config.domains},
     addresses |-> {Lower(a) : a \in config.addresses},
     patterns  |-> config.patterns]

\* re.search(r'<([^>]+)>', from_addr): leftmost '<' that is followed by at
\* least one character other than '>' and then a '>'.
BracketStarts(s) ==
    {i \in 1..Len(s) :
        /\ s[i] = "<"
        /\ \E j \in (i + 2)..Len(s) :
              /\ s[j] = ">"
              /\ \A k \in (i + 1)..(j - 1) : s[k] # ">"}

BracketGroup(s) ==
    LET i == CHOOSE x \in BracketStarts(s) : \A y \in BracketStarts(s) : x <= y
        j == CHOOSE x \in (i + 2)..Len(s) :
                /\ s[x] = ">"
                /\ \A k \in (i + 1)..(x - 1) : s[k] # ">"
    IN  SubSeq(s, i + 1, j - 1)

_extract_email(from_addr) ==
    IF BracketStarts(from_addr) # {} THEN Lower(BracketGroup(from_addr))
    ELSE IF "@" \in Range(from_addr) THEN Lower(Strip(from_addr))
    ELSE None

\* email_addr.split('@')[1]: the text between the first '@' and the next one
\* (or the end of the string).
SplitAt1(s) ==
    LET first == CHOOSE i \in 1..Len(s) : s[i] = "@" /\ \A k \in 1..(i - 1) : s[k] # "@"
        later == {j \in (first + 1)..Len(s) : s[j] = "@"}
        stop  == IF later = {} THEN Len(s) + 1
                 ELSE CHOOSE j \in later : \A k \in later : j <= k
    IN  SubSeq(s, first + 1, stop - 1)

_extract_domain(email_addr) ==
    IF email_addr = None \/ email_addr = <<>> \/ "@" \notin Range(email_addr)
    THEN None
    ELSE Lower(SplitAt1(email_addr))

\* pattern.search(from_addr) for a pattern compiled with re.IGNORECASE; a
\* pattern is literal text, anchored at the start when it begins with '^'.
PatternSearch(pattern, text) ==
    IF pattern # <<>> /\ Head(pattern) = "^"
    THEN IsPrefixAt(Lower(Tail(pattern)), Lower(text), 1)
    ELSE Contains(Lower(text), Lower(pattern))

\* Python truthiness of an Optional[str]
Truthy(s) == s # None /\ s # <<>>

PatternHits(flt, from_addr) ==
    {i \in 1..Len(flt.patterns) : PatternSearch(flt.patterns[i], from_addr)}

_matches_filter_NoAddressRule(flt, raw_from) ==
    LET from_addr  == Lower(raw_from)
        email_addr == _extract_email(from_addr)
        domain     == _extract_domain(email_addr)
    IN  IF Truthy(domain) /\ domain \in flt.domains THEN TRUE
        ELSE PatternHits(flt, from_addr) # {}

_matches_filter(flt, raw_from) ==
    LET from_addr  == Lower(raw_from)
        email_addr == _extract_email(from_addr)
        domain     == _extract_domain(email_addr)
    IN  IF Truthy(domain) /\ domain \in flt.domains THEN TRUE
        ELSE IF Truthy(email_addr) /\ email_addr \in flt.addresses THEN TRUE
        ELSE PatternHits(flt, from_addr) # {}

should_process(flt, raw_from) ==
    LET matches == _matches_filter(flt, raw_from)
    IN  IF flt.mode = "blocklist" THEN ~matches ELSE matches

NoMatch == [kind |-> "no match", text |-> <<>>]

get_reason(flt, raw_from) ==
    LET from_addr  == Lower(raw_from)
        email_addr == _extract_email(from_addr)
        domain     == _extract_domain(email_addr)
        hits       == PatternHits(flt, from_addr)
    IN  IF Truthy(domain) /\ domain \in flt.domains
        THEN [kind |-> "domain", text |-> domain]
        ELSE IF Truthy(email_addr) /\ email_addr \in flt.addresses
        THEN [kind |-> "address", text |-> email_addr]
        ELSE IF hits # {}
        THEN [kind |-> "pattern",
              text |-> flt.patterns[CHOOSE i \in hits : \A k \in hits : i <= k]]
        ELSE NoMatch

(***************************************************************************)
(* src/router.py : ContentRouter                                           *)
(*                                                                         *)
(* A text is a sequence of tokens (single characters, or longer fixed      *)
(* pieces of a format string). A file is the split('\n') view of its text: *)
(* a non-empty sequence of lines. kb maps each existing path to its file.  *)
(***************************************************************************)
\* \w : letters, digits and the underscore
WordChars ==
    {"a", "b", "c", "d", "e", "f", "g", "h", "i", "j", "k", "l", "m", "n", "o", "p", "q",
     "r", "s", "t", "u", "v", "w", "x", "y", "z", "A", "B", "L", "S",
     "0", "1", "2", "3", "4", "5", "6", "7", "8", "9", "_"}

IsWordChar(c) == c \in WordChars

\* re.sub(r'[^\w\s-]', '', text)
KeepWordSpaceHyphen(s) == SelectSeq(s, LAMBDA c : IsWordChar(c) \/ c = " " \/ c = "-")

\* re.sub(r'[-\s]+', '-', text)
RECURSIVE CollapseSeparators(_)
CollapseSeparators(s) ==
    IF s = <<>> THEN <<>>
    ELSE IF Head(s) \in {" ", "-"}
    THEN IF Len(s) > 1 /\ s[2] \in {" ", "-"}
         THEN CollapseSeparators(Tail(s))
         ELSE <<"-">> \o CollapseSeparators(Tail(s))
    ELSE <<Head(s)>> \o CollapseSeparators(Tail(s))

RECURSIVE LStripHyphen(_)
LStripHyphen(s) == IF s # <<>> /\ Head(s) = "-" THEN LStripHyphen(Tail(s)) ELSE s

RECURSIVE RStripHyphen(_)
RStripHyphen(s) ==
    IF s # <<>> /\ s[Len(s)] = "-" THEN RStripHyphen(SubSeq(s, 1, Len(s) - 1)) ELSE s

\* safe_name / safe_topic: lowercased, non-word characters removed, runs of
\* whitespace and hyphens collapsed to one hyphen, outer hyphens stripped.
SafeName(text) ==
    LStripHyphen(RStripHyphen(CollapseSeparators(KeepWordSpaceHyphen(Lower(text)))))

Prefix(s, n) == SubSeq(s, 1, IF Len(s) < n THEN Len(s) ELSE n)

\* Paths below personal_dir: the directory and the file name without ".md".
work_file     == [dir |-> "", name |-> <<"work">>]
personal_file == [dir |-> "", name |-> <<"personal">>]
home_file     == [dir |-> "", name |-> <<"home">>]
PersonFile(person) == [dir |-> "people", name |-> SafeName(person)]
LogFile(date_str) == [dir |-> "logs", name |-> <<date_str>>]
KnowledgeFile(safe_topic) == [dir |-> "knowledge/references", name |-> safe_topic]

\* Path.stem of "<name>.md"; a file called ".md" has no suffix to drop.
Stem(path) == IF path.name = <<>> THEN <<".md">> ELSE path.name

UpperTok(t) ==
    CASE t = "a" -> "A" [] t = "b" -> "B" [] t = "work" -> "Work"
      [] t = "personal" -> "Personal" [] t = "home" -> "Home" [] t = ".md" -> ".Md"
      [] OTHER -> t

IsCased(t) == t \in {"a", "b", "A", "B", "work", "personal", "home"}

\* str.title(): the first cased character of every word in upper case.
Title(s) ==
    [i \in 1..Len(s) |->
        IF i = 1 \/ ~IsCased(s[i - 1]) THEN UpperTok(s[i]) ELSE LowerChar(s[i])]

TODO_HEADER         == <<"## TODO">>
INTERACTIONS_HEADER == <<"## Interactions">>
ACTIVITY_HEADER     == <<"## Email Activity">>
BlankLine           == <<>>

\* a + b on two texts, in the split('\n') view
ConcatText(a, b) ==
    SubSeq(a, 1, Len(a) - 1) \o <<a[Len(a)] \o b[1]>> \o Tail(b)

\* lines.insert(i, content): content may itself hold '\n'
InsertLines(lines, after, content) ==
    SubSeq(lines, 1, after) \o content \o SubSeq(lines, after + 1, Len(lines))

SectionIndexes(lines, section_header) ==
    {i \in 1..Len(lines) : Strip(lines[i]) = section_header}

\* file_path.write_text(...) on the tree
WriteFile(tree, path, lines) ==
    [p \in (DOMAIN tree) \union {path} |-> IF p = path THEN lines ELSE tree[p]]

_insert_into_section_Overwrite(tree, file_path, section_header, content) ==
    WriteFile(tree, file_path,
        <<<<"# ">> \o Title(Stem(file_path)), BlankLine, section_header>>
            \o content \o <<BlankLine>>)

_insert_into_section_LastHeader(tree, file_path, section_header, content) ==
    IF file_path \notin DOMAIN tree
    THEN WriteFile(tree, file_path,
            <<<<"# ">> \o Title(Stem(file_path)), BlankLine, section_header>>
                \o content \o <<BlankLine>>)
    ELSE LET lines == tree[file_path]
             found == SectionIndexes(lines, section_header)
         IN  IF found # {}
             THEN LET section_idx == CHOOSE i \in found : \A k \in found : i >= k
                  IN  WriteFile(tree, file_path, InsertLines(lines, section_idx, content))
             ELSE WriteFile(tree, file_path,
                      lines \o <<BlankLine, section_header>> \o content)

_insert_into_section_Dedup(tree, file_path, section_header, content) ==
    IF file_path \notin DOMAIN tree
    THEN WriteFile(tree, file_path,
            <<<<"# ">> \o Title(Stem(file_path)), BlankLine, section_header>>
                \o content \o <<BlankLine>>)
    ELSE LET lines == tree[file_path]
             found == SectionIndexes(lines, section_header)
         IN  IF Range(content) \subseteq Range(lines) THEN tree
             ELSE IF found # {}
             THEN LET section_idx == CHOOSE i \in found : \A k \in found : i <= k
                  IN  WriteFile(tree, file_path, InsertLines(lines, section_idx, content))
             ELSE WriteFile(tree, file_path,
                      lines \o <<BlankLine, section_header>> \o content)

_insert_into_section(tree, file_path, section_header, content) ==
    IF file_path \notin DOMAIN tree
    THEN WriteFile(tree, file_path,
            <<<<"# ">> \o Title(Stem(file_path)), BlankLine, section_header>>
                \o content \o <<BlankLine>>)
    ELSE LET lines == tree[file_path]
             found == SectionIndexes(lines, section_header)
         IN  IF found # {}
             THEN LET section_idx == CHOOSE i \in found : \A k \in found : i <= k
                  IN  WriteFile(tree, file_path, InsertLines(lines, section_idx, content))
             ELSE WriteFile(tree, file_path,
                      lines \o <<BlankLine, section_header>> \o content)

\* " ".join(parts)
RECURSIVE JoinSpace(_)
JoinSpace(parts) ==
    IF parts = <<>> THEN <<>>
    ELSE IF Len(parts) = 1 THEN parts[1]
    ELSE parts[1] \o <<" ">> \o JoinSpace(Tail(parts))

_format_task_line(c) ==
    JoinSpace(
        <<<<"- [", c.priority, "]">>, c.summary>>
        \o (IF c.deadline # "" THEN <<<<"@deadline:", c.deadline>>>> ELSE <<>>)
        \o [i \in 1..Len(Prefix(c.people, 2)) |-> <<"@person:">> \o c.people[i]]
        \o (IF "waiting" \in c.tags THEN <<<<"@waiting">>>> ELSE <<>>)
        \o (IF "followup" \in c.tags THEN <<<<"@followup">>>> ELSE <<>>))

\* email.date.strftime("%Y-%m-%d")
DateStr(email) == email.date.day

PersonInfoLine(email, c) ==
    <<"- ", DateStr(email), ": ">> \o c.summary \o <<" (via email)">>

InteractionLine(email, c) ==
    <<"- ", DateStr(email), ": Email regarding: ">> \o c.summary

SafeTopic(c) ==
    LET t == SafeName(Prefix(c.summary, 50)) IN IF t = <<>> THEN <<"misc">> ELSE t

\* the f-string block of _add_to_knowledge, split at its newlines
KnowledgeBlock(email, c) ==
    << BlankLine,
       <<"## ">> \o c.summary,
       BlankLine,
       <<"*Source: Email from ">> \o email.from_addr \o <<" on ", DateStr(email), "*">>,
       BlankLine,
       email.body,
       BlankLine,
       <<"---">>,
       BlankLine >>

_add_to_knowledge(tree, email, c) ==
    LET knowledge_file == KnowledgeFile(SafeTopic(c))
    IN  IF knowledge_file \in DOMAIN tree
        THEN WriteFile(tree, knowledge_file,
                 ConcatText(tree[knowledge_file], KnowledgeBlock(email, c)))
        ELSE WriteFile(tree, knowledge_file,
                 ConcatText(<<<<"# ">> \o c.summary, BlankLine>>, KnowledgeBlock(email, c)))

FromName(email) ==
    LET cut  == {i \in 1..Len(email.from_addr) : email.from_addr[i] = "<"}
        head == IF cut = {} THEN email.from_addr
                ELSE SubSeq(email.from_addr, 1, (CHOOSE i \in cut : \A k \in cut : i <= k) - 1)
    IN  IF Strip(head) # <<>> THEN Strip(head) ELSE email.from_addr

LogEntry(email, c) ==
    <<<<"- **Email from ">> \o FromName(email) \o <<"**: ">> \o c.summary>>
    \o [i \in 1..Len(c.action_items) |-> <<"  - [ ] ">> \o c.action_items[i]]

\* The file writes of one route call, in the order the code performs them.
PrimaryWrites(email, c) ==
    CASE c.category = "work_task" ->
            <<[op |-> "section", path |-> work_file, header |-> TODO_HEADER,
               content |-> <<_format_task_line(c)>>]>>
      [] c.category = "personal_task" ->
            <<[op |-> "section", path |-> personal_file, header |-> TODO_HEADER,
               content |-> <<_format_task_line(c)>>]>>
      [] c.category = "home_task" ->
            <<[op |-> "section", path |-> home_file, header |-> TODO_HEADER,
               content |-> <<_format_task_line(c)>>]>>
      [] c.category = "person_info" ->
            [i \in 1..Len(c.people) |->
                [op |-> "section", path |-> PersonFile(c.people[i]),
                 header |-> INTERACTIONS_HEADER,
                 content |-> <<PersonInfoLine(email, c)>>]]
      [] c.category = "knowledge" ->
            <<[op |-> "knowledge", path |-> KnowledgeFile(SafeTopic(c)),
               header |-> BlankLine, content |-> KnowledgeBlock(email, c)]>>
      [] c.category = "log_entry" ->
            <<[op |-> "section", path |-> LogFile(DateStr(email)),
               header |-> ACTIVITY_HEADER, content |-> LogEntry(email, c)]>>
      [] OTHER -> <<>>

_add_people_interactions(email, c) ==
    [i \in 1..Len(c.people) |->
        [op |-> "section", path |-> PersonFile(c.people[i]),
         header |-> INTERACTIONS_HEADER,
         content |-> <<InteractionLine(email, c)>>]]

RouteWrites_NoIgnoreReturn(email, c) ==
    PrimaryWrites(email, c)
    \o (IF c.people # <<>> /\ c.category # "person_info"
        THEN _add_people_interactions(email, c) ELSE <<>>)

RouteWrites(email, c) ==
    IF c.category = "ignore" THEN <<>>
    ELSE PrimaryWrites(email, c)
         \o (IF c.people # <<>> /\ c.category # "person_info"
             THEN _add_people_interactions(email, c) ELSE <<>>)

ApplyWrite(tree, email, c, w) ==
    IF w.op = "knowledge" THEN _add_to_knowledge(tree, email, c)
    ELSE _insert_into_section(tree, w.path, w.header, w.content)

\* the tree after the first n writes of a route call
RECURSIVE ApplyWrites(_, _, _, _, _)
ApplyWrites(tree, email, c, ws, n) ==
    IF n = 0 THEN tree
    ELSE ApplyWrite(ApplyWrites(tree, email, c, ws, n - 1), email, c, ws[n])

\* modified_files, as route builds it
ModifiedFiles(email, c) ==
    IF c.category = "ignore" THEN <<>>
    ELSE [i \in 1..Len(PrimaryWrites(email, c)) |-> PrimaryWrites(email, c)[i].path]

route(tree, email, c) ==
    [tree     |-> ApplyWrites(tree, email, c, RouteWrites(email, c),
                              Len(RouteWrites(email, c))),
     modified |-> ModifiedFiles(email, c)]


(***************************************************************************)
(* src/state.py : SyncState                                                *)
(***************************************************************************)
\* hashlib.sha256(content.encode()).hexdigest() of "from|subject|isoformat"
FallbackFingerprint(email) ==
    <<"sha256:">> \o email.from_addr \o <<"|">> \o email.subject
        \o <<"|", email.date.day, "T", email.date.time>>

get_email_fingerprint(email) ==
    IF email.message_id # "" THEN <<email.message_id>> ELSE FallbackFingerprint(email)

\* list(self.seen_ids): the members in some order
RECURSIVE SetToList(_)
SetToList(set) ==
    IF set = {} THEN <<>>
    ELSE LET x == CHOOSE y \in set : TRUE IN <<x>> \o SetToList(set \ {x})

FileAbsent == [kind |-> "absent", ids |-> <<>>, last_sync |-> <<>>]

\* json.dump({"message_ids": [...], "updated_at": ...})
SeenJson(ids) == [kind |-> "json", ids |-> SetToList(ids), last_sync |-> <<>>]

\* datetime.isoformat() and datetime.fromisoformat() on a clock reading
IsoFormat(t) == <<"iso", t>>
FromIsoFormat(text) == text[2]
IsIsoText(text) == Len(text) = 2 /\ text[1] = "iso"

\* json.dump({"last_sync": datetime.now().isoformat()})
LastSyncJson(t) == [kind |-> "json", ids |-> <<>>, last_sync |-> IsoFormat(t)]

\* Other contents a state file can hold: text that is not JSON ("badjson"), a
\* JSON object without the key ("nokey"), JSON that is not an object
\* ("notdict"), an object whose value has the wrong type ("badvalue"), and a
\* last_sync string that is no ISO timestamp ("badiso").
Corrupt(kind) == [kind |-> kind, ids |-> <<>>, last_sync |-> <<>>]

\* _load_state catches JSONDecodeError and KeyError only: data.get on a
\* non-object and set() of a non-iterable raise out of the constructor
LoadRaises(file) == file.kind \in {"notdict", "badvalue"}

\* _load_state: a missing, undecodable or keyless file gives the empty set
_load_state(file) ==
    IF file.kind = "json" THEN Range(file.ids) ELSE {}

\* _save_state: the whole set replaces the file
_save_state(file, ids) == SeenJson(ids)

is_seen_MessageIdOnly(ids, email) == <<email.message_id>> \in ids

is_seen(ids, email) == get_email_fingerprint(email) \in ids

mark_seen_MemoryOnly(ids, file, email) ==
    [seen_ids  |-> ids \union {get_email_fingerprint(email)},
     seen_file |-> file]

\* mark_seen: add to the set, then save
mark_seen(ids, file, email) ==
    LET added == ids \union {get_email_fingerprint(email)}
    IN  [seen_ids |-> added, seen_file |-> _save_state(file, added)]

\* get_last_sync: the stored timestamp, or None
NoTime == 0 - 1

\* get_last_sync catches JSONDecodeError, KeyError and ValueError only:
\* indexing a non-object and fromisoformat of a non-string raise TypeError
GetLastSyncRaises(file) == file.kind \in {"notdict", "badvalue"}

get_last_sync(file) ==
    IF file.kind = "json" /\ IsIsoText(file.last_sync)
    THEN FromIsoFormat(file.last_sync)
    ELSE NoTime

update_last_sync_UnlinkWhenPresent(file, t) ==
    IF get_last_sync(file) = NoTime THEN LastSyncJson(t) ELSE FileAbsent

\* update_last_sync at clock reading t
update_last_sync(file, t) == LastSyncJson(t)

get_stats(ids, file) ==
    [total_processed |-> Cardinality(ids),
     last_sync |-> IF get_last_sync(file) # NoTime THEN IsoFormat(get_last_sync(file))
                   ELSE None]

clear_KeepsLastSync(ids, file, sync_file) ==
    [seen_ids |-> {}, seen_file |-> _save_state(file, {}), last_sync_file |-> sync_file]

\* clear: empty set saved, last_sync.json unlinked
clear(ids, file, sync_file) ==
    [seen_ids |-> {}, seen_file |-> _save_state(file, {}), last_sync_file |-> FileAbsent]


(***************************************************************************)
(* src/search.py : parse_natural_query and search_emails                   *)
(* A datetime is its local clock reading in hours and its tzinfo: "naive", *)
(* "+00:00" or "+01:00".                                                   *)
(***************************************************************************)
\* timedelta(days=n)
Days(n) == n * 24

\* SearchQuery.date_from / date_to when None
NoDate == [local |-> 0, tz |-> "None"]

UtcNow(t) == [local |-> t, tz |-> "+00:00"]

UtcOffset(tz) == IF tz = "+01:00" THEN 1 ELSE 0

\* _normalize_datetime: the UTC reading; a naive datetime is taken as UTC
_normalize_datetime(dt) == dt.local - UtcOffset(dt.tz)

\* datetime.isoformat(): the local reading, then the offset of an aware datetime
isoformat(dt) == [local |-> dt.local, suffix |-> IF dt.tz = "naive" THEN "" ELSE dt.tz]

\* position of an offset suffix in string order: "" < "+00:00" < "+01:00"
SuffixRank(suffix) == IF suffix = "" THEN 0 ELSE IF suffix = "+00:00" THEN 1 ELSE 2

\* string comparison of two isoformat() texts
IsoTextLess(a, b) ==
    \/ a.local < b.local
    \/ a.local = b.local /\ SuffixRank(a.suffix) < SuffixRank(b.suffix)

\* the end of the longest run of \w (of \s, of \d) that starts at i; i - 1 if none
RECURSIVE WordRunEnd(_, _)
WordRunEnd(s, i) ==
    IF i <= Len(s) /\ IsWordChar(s[i]) THEN WordRunEnd(s, i + 1) ELSE i - 1

RECURSIVE SpaceRunEnd(_, _)
SpaceRunEnd(s, i) ==
    IF i <= Len(s) /\ IsSpace(s[i]) THEN SpaceRunEnd(s, i + 1) ELSE i - 1

IsDigit(c) == c \in {"0", "1", "2", "3", "4", "5", "6", "7", "8", "9"}

RECURSIVE DigitRunEnd(_, _)
DigitRunEnd(s, i) ==
    IF i <= Len(s) /\ IsDigit(s[i]) THEN DigitRunEnd(s, i + 1) ELSE i - 1

\* \b before position i
WordBoundary(s, i) ==
    (i > 1 /\ i - 1 <= Len(s) /\ IsWordChar(s[i - 1])) # (i <= Len(s) /\ IsWordChar(s[i]))

\* re.search(r'\bfrom\s+(\w+(?:\s+\w+)?)', query_lower): the start positions
FromMatches(s) ==
    {i \in 1..Len(s) :
        /\ WordBoundary(s, i)
        /\ IsPrefixAt(<<"f", "r", "o", "m">>, s, i)
        /\ SpaceRunEnd(s, i + 4) >= i + 4
        /\ WordRunEnd(s, SpaceRunEnd(s, i + 4) + 1) > SpaceRunEnd(s, i + 4)}

\* group(1) of the leftmost match: one word, and greedily a second one
FromGroup(s) ==
    LET i     == CHOOSE x \in FromMatches(s) : \A y \in FromMatches(s) : x <= y
        start == SpaceRunEnd(s, i + 4) + 1
        end1  == WordRunEnd(s, start)
        gap   == SpaceRunEnd(s, end1 + 1)
        end2  == WordRunEnd(s, gap + 1)
    IN  IF gap > end1 /\ end2 > gap THEN SubSeq(s, start, end2)
        ELSE SubSeq(s, start, end1)

\* re.search(r'(last|this|past)\s+' + unit, query_lower)
PeriodPhrase(s, unit) ==
    \E i \in 1..Len(s) :
        /\ \E w \in {<<"l", "a", "s", "t">>, <<"t", "h", "i", "s">>, <<"p", "a", "s", "t">>} :
              IsPrefixAt(w, s, i)
        /\ SpaceRunEnd(s, i + 4) >= i + 4
        /\ IsPrefixAt(unit, s, SpaceRunEnd(s, i + 4) + 1)

\* re.search(r'last\s+(\d+)\s+days?', query_lower): the start positions
LastDaysMatches(s) ==
    {i \in 1..Len(s) :
        /\ IsPrefixAt(<<"l", "a", "s", "t">>, s, i)
        /\ SpaceRunEnd(s, i + 4) >= i + 4
        /\ LET d == SpaceRunEnd(s, i + 4) + 1
               e == DigitRunEnd(s, d)
           IN  /\ e >= d
               /\ SpaceRunEnd(s, e + 1) >= e + 1
               /\ IsPrefixAt(<<"d", "a", "y">>, s, SpaceRunEnd(s, e + 1) + 1)}

DigitValue(c) ==
    CHOOSE n \in 0..9 : <<"0", "1", "2", "3", "4", "5", "6", "7", "8", "9">>[n + 1] = c

\* int(text) of a run of digits
RECURSIVE ParseInt(_)
ParseInt(digits) ==
    IF digits = <<>> THEN 0
    ELSE 10 * ParseInt(SubSeq(digits, 1, Len(digits) - 1)) + DigitValue(digits[Len(digits)])

LastDaysGroup(s) ==
    LET i == CHOOSE x \in LastDaysMatches(s) : \A y \in LastDaysMatches(s) : x <= y
        d == SpaceRunEnd(s, i + 4) + 1
    IN  ParseInt(SubSeq(s, d, DigitRunEnd(s, d)))

\* re.findall(r'\b\w+\b', text): the maximal runs of word characters, in order
RECURSIVE WordsFrom(_, _)
WordsFrom(s, i) ==
    IF i > Len(s) THEN <<>>
    ELSE IF IsWordChar(s[i])
         THEN <<SubSeq(s, i, WordRunEnd(s, i))>> \o WordsFrom(s, WordRunEnd(s, i) + 1)
         ELSE WordsFrom(s, i + 1)

Words(s) == WordsFrom(s, 1)

stopwords ==
    {<<"f", "i", "n", "d">>,
     <<"s", "e", "a", "r", "c", "h">>,
     <<"s", "h", "o", "w">>,
     <<"g", "e", "t">>,
     <<"a", "n", "y">>,
     <<"a", "l", "l">>,
     <<"m", "e">>,
     <<"m", "y">>,
     <<"e", "m", "a", "i", "l", "s">>,
     <<"e", "m", "a", "i", "l">>,
     <<"m", "e", "s", "s", "a", "g", "e", "s">>,
     <<"m", "e", "s", "s", "a", "g", "e">>,
     <<"m", "a", "i", "l">>,
     <<"a", "b", "o", "u", "t">>,
     <<"r", "e", "g", "a", "r", "d", "i", "n", "g">>,
     <<"c", "o", "n", "c", "e", "r", "n", "i", "n", "g">>,
     <<"m", "e", "n", "t", "i", "o", "n", "i", "n", "g">>,
     <<"c", "o", "n", "t", "a", "i", "n", "i", "n", "g">>,
     <<"w", "i", "t", "h">>,
     <<"t", "h", "e">>,
     <<"a">>,
     <<"a", "n">>,
     <<"a", "n", "d">>,
     <<"o", "r">>,
     <<"f", "o", "r">>,
     <<"i", "n">>,
     <<"o", "n">>,
     <<"f", "r", "o", "m">>,
     <<"t", "o">>,
     <<"l", "a", "s", "t">>,
     <<"t", "h", "i", "s">>,
     <<"p", "a", "s", "t">>,
     <<"w", "e", "e", "k">>,
     <<"m", "o", "n", "t", "h">>,
     <<"d", "a", "y">>,
     <<"d", "a", "y", "s">>,
     <<"y", "e", "s", "t", "e", "r", "d", "a", "y">>,
     <<"t", "o", "d", "a", "y">>,
     <<"w", "h", "a", "t">>,
     <<"d", "i", "d">>,
     <<"s", "a", "y">>,
     <<"s", "a", "i", "d">>,
     <<"s", "a", "y", "s">>,
     <<"a", "n", "y", "t", "h", "i", "n", "g">>,
     <<"s", "o", "m", "e", "t", "h", "i", "n", "g">>,
     <<"e", "v", "e", "r", "y", "t", "h", "i", "n", "g">>,
     <<"r", "e", "c", "e", "n", "t">>,
     <<"n", "e", "w">>,
     <<"o", "l", "d">>}

\* the date_from / date_to chain of lines 63-86 at clock reading t
QueryDates(query_lower, t) ==
    LET phrase ==
            IF PeriodPhrase(query_lower, <<"w", "e", "e", "k">>)
            THEN [date_from |-> UtcNow(t - Days(7)), date_to |-> NoDate]
            ELSE IF PeriodPhrase(query_lower, <<"m", "o", "n", "t", "h">>)
            THEN [date_from |-> UtcNow(t - Days(30)), date_to |-> NoDate]
            ELSE IF Contains(query_lower, <<"y", "e", "s", "t", "e", "r", "d", "a", "y">>)
            THEN [date_from |-> UtcNow(t - Days(2)), date_to |-> UtcNow(t)]
            ELSE IF Contains(query_lower, <<"t", "o", "d", "a", "y">>)
            THEN [date_from |-> UtcNow(t - (t % 24)), date_to |-> NoDate]
            ELSE [date_from |-> NoDate, date_to |-> NoDate]
    IN  IF LastDaysMatches(query_lower) # {}
        THEN [phrase EXCEPT !.date_from = UtcNow(t - Days(LastDaysGroup(query_lower)))]
        ELSE phrase

\* parse_natural_query(query) with datetime.now(timezone.utc) reading t
parse_natural_query(query, t) ==
    LET query_lower  == Lower(query)
        sender       == IF FromMatches(query_lower) # {} THEN FromGroup(query_lower) ELSE None
        dates        == QueryDates(query_lower, t)
        words        == Words(query_lower)
        keywords     == SelectSeq(words, LAMBDA w : w \notin stopwords /\ Len(w) > 2)
        sender_parts == IF sender # None THEN Range(Words(Lower(sender))) ELSE {}
    IN  [keywords  |-> SelectSeq(keywords, LAMBDA k : k \notin sender_parts),
         sender    |-> sender,
         date_from |-> dates.date_from,
         date_to   |-> dates.date_to,
         limit     |-> 20]

\* lines 125-135: the sender and date filters
PassesSender(email, query) ==
    (query.sender # None /\ query.sender # <<>>)
        => Contains(Lower(email.from_addr), Lower(query.sender))

PassesDates(email, query) ==
    /\ ~(query.date_from # NoDate
            /\ _normalize_datetime(email.date) < _normalize_datetime(query.date_from))
    /\ ~(query.date_to # NoDate
            /\ _normalize_datetime(email.date) > _normalize_datetime(query.date_to))

\* lines 141-151: one keyword's contribution to the score
KeywordScore(email, keyword) ==
    (IF Contains(Lower(email.subject), Lower(keyword)) THEN 2 ELSE 0)
        + (IF Contains(Lower(email.body), Lower(keyword)) THEN 1 ELSE 0)

RECURSIVE SumKeywordScores(_, _)
SumKeywordScores(email, keywords) ==
    IF keywords = <<>> THEN 0
    ELSE KeywordScore(email, Head(keywords)) + SumKeywordScores(email, Tail(keywords))

\* lines 138-167
Relevance(email, query) ==
    IF query.keywords = <<>> THEN 1 ELSE SumKeywordScores(email, query.keywords)

\* the SearchResult of a message (the preview and context texts left out:
\* they take no part in selection or order)
SearchResult(email, score) ==
    [message_id |-> email.message_id, from_addr |-> email.from_addr,
     subject |-> email.subject, date |-> isoformat(email.date), relevance_score |-> score]

\* lines 123-186: results in candidate order
RECURSIVE ScanEmails(_, _)
ScanEmails(emails_, query) ==
    IF emails_ = <<>> THEN <<>>
    ELSE LET email == Head(emails_)
             rest  == ScanEmails(Tail(emails_), query)
         IN  IF PassesSender(email, query) /\ PassesDates(email, query)
                  /\ Relevance(email, query) > 0
             THEN <<SearchResult(email, Relevance(email, query))>> \o rest
             ELSE rest

\* key(a) < key(b) for key = (-relevance_score, date)
SortKeyLess(a, b) ==
    \/ a.relevance_score > b.relevance_score
    \/ a.relevance_score = b.relevance_score /\ IsoTextLess(a.date, b.date)

\* list.sort is stable: r goes before the first result whose key is greater
StableInsert(sorted, r) ==
    LET later == {i \in 1..Len(sorted) : SortKeyLess(r, sorted[i])}
        at    == IF later = {} THEN Len(sorted) + 1
                 ELSE CHOOSE i \in later : \A k \in later : i <= k
    IN  SubSeq(sorted, 1, at - 1) \o <<r>> \o SubSeq(sorted, at, Len(sorted))

RECURSIVE SortResults(_)
SortResults(results) ==
    IF results = <<>> THEN <<>>
    ELSE StableInsert(SortResults(SubSeq(results, 1, Len(results) - 1)),
                      results[Len(results)])

search_emails_CandidateOrder(emails_, query) ==
    Prefix(ScanEmails(emails_, query), query.limit)

\* search_emails: scan, sort, results[:query.limit]
search_emails(emails_, query) ==
    Prefix(SortResults(ScanEmails(emails_, query)), query.limit)


(***************************************************************************)
(* Messages, classifier results and knowledge-base trees used as inputs    *)
(***************************************************************************)
Email1 ==
    [message_id |-> "<id1>", from_addr |-> <<"a", "@", "a">>, subject |-> <<"a">>,
     body |-> <<"body1">>, date |-> [day |-> "2024-01-01", time |-> "09:00"]]

Email2 ==
    [message_id |-> "<id2>", from_addr |-> <<"B", " ", "<", "a", "@", "B", ">">>,
     subject |-> <<"B">>, body |-> <<"body2">>,
     date |-> [day |-> "2024-01-02", time |-> "09:00"]]

\* a message without a Message-ID header
Email3 ==
    [message_id |-> "", from_addr |-> <<"a", "@", "a">>, subject |-> <<"a">>,
     body |-> <<"body3">>, date |-> [day |-> "2024-01-02", time |-> "10:00"]]

Emails == {Email1, Email2, Email3}

\* the router reads from_addr, date and body only
RouterEmails == {Email1, Email2}

Categories ==
    {"work_task", "personal_task", "home_task", "person_info", "knowledge",
     "log_entry", "ignore"}

Alice == <<"a">>
Bob   == <<"B", ".", " ", "a">>

PeopleLists == {<<>>, <<Alice>>, <<Alice, Bob>>}

Classifications ==
    [category : Categories, priority : {"P2"}, people : PeopleLists,
     deadline : {""}, summary : {<<"B", " ", "a">>}, action_items : {<<>>},
     tags : {{}}]
    \union
    {[category |-> "work_task", priority |-> "P1", people |-> <<Bob, Alice, Bob>>,
      deadline |-> "2024-02-01", summary |-> <<"a">>, action_items |-> <<>>,
      tags |-> {"waiting", "followup"}],
     [category |-> "log_entry", priority |-> "P3", people |-> <<>>,
      deadline |-> "", summary |-> <<"a">>, action_items |-> <<<<"a">>, <<"B">>>>,
      tags |-> {}],
     [category |-> "knowledge", priority |-> "P3", people |-> <<>>,
      deadline |-> "", summary |-> <<".">>, action_items |-> <<>>,
      tags |-> {}]}

EmptyTree == [p \in {} |-> <<>>]

\* work.md as the router itself creates it, and a person file written by hand
\* without the section
Tree1 ==
    WriteFile(
        WriteFile(EmptyTree, work_file,
            <<<<"# ", "Work">>, BlankLine, TODO_HEADER, <<"- old">>, BlankLine>>),
        PersonFile(Alice), <<<<"notes">>>>)

\* hand-edited files: an indented header, a repeated header, and an existing
\* knowledge file whose text does not end in a newline
Tree2 ==
    WriteFile(
        WriteFile(EmptyTree, work_file,
            <<<<"intro">>, <<" ", "## TODO", " ">>, <<"- old">>, TODO_HEADER, <<"- older">>>>),
        KnowledgeFile(<<"b", "-", "a">>), <<<<"# ", "B", " ", "a">>, <<"text">>>>)

InitialTrees == {EmptyTree, Tree1, Tree2}

NoCall ==
    [called |-> FALSE, raised |-> FALSE, email |-> Email1,
     c |-> CHOOSE c \in Classifications : TRUE, before |-> EmptyTree,
     modified |-> <<>>]

RouterIdle == r_call = NoCall /\ r_calls = 0

NoFilter ==
    [mode |-> "blocklist", domains |-> {}, addresses |-> {}, patterns |-> <<>>]

\* blocks the senders at domain "a" (Email1, Email3)
BlockDomainA ==
    [mode |-> "blocklist", domains |-> {<<"a">>}, addresses |-> {}, patterns |-> <<>>]

SyncFilterConfigs == {NoFilter, BlockDomainA}

\* fetch results: empty, two messages, and a batch that repeats a message
Batches == {<<>>, <<Email1, Email2>>, <<Email2, Email3, Email2>>}

\* classifier results in sync runs: ignore naming a person, a task naming a
\* person (two file writes), person_info naming nobody (no write), a log entry
\* the most file writes one route call makes for these classifier results: the
\* category's own write and one interaction line per named person
MaxWritesPerRoute == 1 + Len(<<Alice>>)

SyncClassifications ==
    {c \in Classifications :
        /\ c.priority = "P2"
        /\ \/ c.category = "ignore" /\ c.people = <<Alice>>
           \/ c.category = "work_task" /\ c.people = <<Alice>>
           \/ c.category = "person_info" /\ c.people = <<>>
           \/ c.category = "log_entry" /\ c.people = <<>>}

NoClassification ==
    [category |-> "none", priority |-> "", people |-> <<>>, deadline |-> "",
     summary |-> <<>>, action_items |-> <<>>, tags |-> {}]

NoStep == [kind |-> "none", c |-> NoClassification]

ZeroCounts == [new |-> 0, ignored |-> 0, filtered |-> 0, error |-> 0]

ZeroCalls == [filter |-> 0, classify |-> 0, route |-> 0, update_last_sync |-> 0]

NoRc == 0 - 1

NothingApplied == [k \in {} |-> 0]

StoreIdle ==
    /\ seen_file = FileAbsent
    /\ last_sync_file = FileAbsent
    /\ now = 0
    /\ seen_ids = {}

NoMarks == [start |-> {}, marked |-> {}, raised |-> {}]

\* bookkeeping of a loop step: the message was marked seen / its handling raised
NoteMarked(m, fp) == [m EXCEPT !.marked = @ \union {fp}, !.raised = @ \ {fp}]

NoteRaised(m, fp) == [m EXCEPT !.raised = @ \union {fp}]

SyncIdle ==
    /\ pc = "idle"
    /\ emails = <<>>
    /\ idx = 1
    /\ flt_cfg = NoFilter
    /\ counts = ZeroCounts
    /\ rc = NoRc
    /\ h = NoStep
    /\ calls = ZeroCalls
    /\ applied = NothingApplied
    /\ runs = 0
    /\ rejected = {}
    /\ marks = NoMarks

NoQuery == [keywords |-> <<>>, sender |-> None, date_from |-> None, date_to |-> None,
            limit |-> 0]

NotSearched == [ran |-> FALSE, results |-> <<>>]

SearchIdle == s_emails = <<>> /\ s_text = <<>> /\ s_query = NoQuery /\ s_out = NotSearched

InsertIdle == i_init = <<>> /\ i_added = <<>>


(***************************************************************************)
(* Filter check: every From header up to MaxAddrLen characters against    *)
(* rulesets with overlapping domain, address and pattern rules.            *)
(***************************************************************************)
FilterConfigs ==
    [mode      : {"blocklist", "allowlist"},
     domains   : {{}, {<<"a">>, <<"B">>}},
     addresses : {{}, {<<"@", "a">>, <<"a", "@", "B">>, <<"a">>}},
     patterns  : {<<>>, <<<<"^", "a">>, <<"B", "@">>>>, <<<<"@">>, <<"<", "B">>>>}]

FilterNotRun == [ran |-> FALSE, process |-> FALSE, reason |-> NoMatch]

FilterIdle == f_from = <<>> /\ f_cfg = <<>> /\ f_out = FilterNotRun

InitFilter ==
    /\ f_from \in StringsUpTo(MaxAddrLen)
    /\ f_cfg \in FilterConfigs
    /\ f_out = FilterNotRun
    /\ kb = EmptyTree
    /\ RouterIdle
    /\ StoreIdle
    /\ SyncIdle
    /\ SearchIdle
    /\ InsertIdle

\* One message through the filter, as cmd_sync does it: should_process, and
\* get_reason on the same filter object.
FilterCheck ==
    /\ ~f_out.ran
    /\ LET flt == EmailFilter(f_cfg)
       IN  f_out' = [ran     |-> TRUE,
                     process |-> should_process(flt, f_from),
                     reason  |-> get_reason(flt, f_from)]
    /\ UNCHANGED <<f_from, f_cfg, kb, r_call, r_calls>>
    /\ UNCHANGED <<storeVars, syncVars, searchVars, insertVars>>

NextFilter == FilterCheck

SpecFilter == InitFilter /\ [][NextFilter]_vars

(***************************************************************************)
(* Router check: route called directly, from hand-made and router-made     *)
(* trees, with every category and people list.                             *)
(***************************************************************************)
InitRouter ==
    /\ kb \in InitialTrees
    /\ RouterIdle
    /\ FilterIdle
    /\ StoreIdle
    /\ SyncIdle
    /\ SearchIdle
    /\ InsertIdle

\* router.route(email, classification) returns normally
RouteCall(email, c) ==
    /\ r_calls < MaxRouteCalls
    /\ LET res == route(kb, email, c)
       IN  /\ kb' = res.tree
           /\ r_call' = [called |-> TRUE, raised |-> FALSE, email |-> email, c |-> c,
                         before |-> kb, modified |-> res.modified]
    /\ r_calls' = r_calls + 1
    /\ UNCHANGED <<filterVars, storeVars, syncVars, searchVars, insertVars>>

\* router.route raises from its n-th file write (a filesystem error): the
\* writes before it stay in the tree and nothing is returned
RouteRaise(email, c, n) ==
    /\ r_calls < MaxRouteCalls
    /\ n \in 1..Len(RouteWrites(email, c))
    /\ kb' = ApplyWrites(kb, email, c, RouteWrites(email, c), n - 1)
    /\ r_call' = [called |-> TRUE, raised |-> TRUE, email |-> email, c |-> c,
                  before |-> kb, modified |-> <<>>]
    /\ r_calls' = r_calls + 1
    /\ UNCHANGED <<filterVars, storeVars, syncVars, searchVars, insertVars>>

NextRouter ==
    \/ \E email \in RouterEmails, c \in Classifications : RouteCall(email, c)
    \/ \E email \in RouterEmails, c \in Classifications :
          \E n \in 1..Len(RouteWrites(email, c)) : RouteRaise(email, c, n)

SpecRouter == InitRouter /\ [][NextRouter]_vars


(***************************************************************************)
(* main.py : cmd_sync and cmd_reset                                        *)
(***************************************************************************)
InLoop == pc = "loop" /\ idx <= Len(emails)

\* the except clause of the loop body: count the error, go on with the loop
ExceptHandler_Reraise(cnts) == [counts |-> cnts, pc |-> "aborted"]

ExceptHandler(cnts) ==
    [counts |-> [cnts EXCEPT !.error = @ + 1], pc |-> "loop"]

\* the completed writes of a route call, added to the record of writes
WriteKey(email, w) ==
    [fp |-> get_email_fingerprint(email), path |-> w.path, content |-> w.content]

RECURSIVE RecordWrites(_, _, _, _)
RecordWrites(done, email, ws, n) ==
    IF n = 0 THEN done
    ELSE LET prev == RecordWrites(done, email, ws, n - 1)
             k    == WriteKey(email, ws[n])
         IN  [x \in (DOMAIN prev) \union {k} |->
                 IF x = k THEN (IF k \in DOMAIN prev THEN prev[k] + 1 ELSE 1)
                 ELSE prev[x]]

\* lines 40-72: SyncState(state_dir) loads the seen set, the fetch succeeds
StartSync(batch, cfg) ==
    /\ pc = "idle"
    /\ runs < MaxRuns
    /\ ~LoadRaises(seen_file)
    /\ ~GetLastSyncRaises(last_sync_file)
    /\ runs' = runs + 1
    /\ seen_ids' = _load_state(seen_file)
    /\ emails' = batch
    /\ flt_cfg' = cfg
    /\ idx' = 1
    /\ counts' = ZeroCounts
    /\ calls' = ZeroCalls
    /\ rc' = NoRc
    /\ h' = NoStep
    /\ pc' = "loop"
    /\ marks' = [start |-> _load_state(seen_file), marked |-> {}, raised |-> marks.raised]
    /\ UNCHANGED <<seen_file, last_sync_file, now, kb, applied, filterVars, routerVars, rejected,
                   searchVars, insertVars>>

\* lines 68-70: the except clause around the fetch returns 1 at once
FetchExceptHandler_ReturnsZero(sync_file) == [rc |-> 0, last_sync_file |-> sync_file]

FetchExceptHandler(sync_file) == [rc |-> 1, last_sync_file |-> sync_file]

\* lines 62-70: the fetch raises, cmd_sync returns 1
FetchFails ==
    /\ pc = "idle"
    /\ runs < MaxRuns
    /\ ~LoadRaises(seen_file)
    /\ ~GetLastSyncRaises(last_sync_file)
    /\ runs' = runs + 1
    /\ seen_ids' = _load_state(seen_file)
    /\ emails' = <<>>
    /\ idx' = 1
    /\ counts' = ZeroCounts
    /\ calls' = ZeroCalls
    /\ rc' = FetchExceptHandler(last_sync_file).rc
    /\ last_sync_file' = FetchExceptHandler(last_sync_file).last_sync_file
    /\ h' = [kind |-> "fetch_failed", c |-> NoClassification]
    /\ marks' = [start |-> _load_state(seen_file), marked |-> {}, raised |-> marks.raised]
    /\ UNCHANGED <<pc, flt_cfg, seen_file, now, kb, applied,
                   filterVars, routerVars, rejected,
                   searchVars, insertVars>>

\* lines 85-86
SkipSeen ==
    /\ InLoop
    /\ is_seen(seen_ids, emails[idx])
    /\ idx' = idx + 1
    /\ h' = [kind |-> "skipped", c |-> NoClassification]
    /\ UNCHANGED <<marks, pc, emails, flt_cfg, counts, rc, calls, applied, runs, storeVars, kb,
                   filterVars, routerVars, rejected,
                   searchVars, insertVars>>

Filtered_NotMarked ==
    /\ InLoop
    /\ ~is_seen(seen_ids, emails[idx])
    /\ ~should_process(EmailFilter(flt_cfg), emails[idx].from_addr)
    /\ calls' = [calls EXCEPT !.filter = @ + 1]
    /\ counts' = [counts EXCEPT !.filtered = @ + 1]
    /\ idx' = idx + 1
    /\ h' = [kind |-> "filtered", c |-> NoClassification]
    /\ rejected' = rejected \union {get_email_fingerprint(emails[idx])}
    /\ marks' = NoteMarked(marks, get_email_fingerprint(emails[idx]))
    /\ UNCHANGED <<pc, emails, flt_cfg, rc, applied, runs, storeVars, kb,
                   filterVars, routerVars, searchVars, insertVars>>

\* lines 89-94
Filtered ==
    /\ InLoop
    /\ ~is_seen(seen_ids, emails[idx])
    /\ ~should_process(EmailFilter(flt_cfg), emails[idx].from_addr)
    /\ calls' = [calls EXCEPT !.filter = @ + 1]
    /\ counts' = [counts EXCEPT !.filtered = @ + 1]
    /\ LET m == mark_seen(seen_ids, seen_file, emails[idx])
       IN  seen_ids' = m.seen_ids /\ seen_file' = m.seen_file
    /\ idx' = idx + 1
    /\ h' = [kind |-> "filtered", c |-> NoClassification]
    /\ rejected' = rejected \union {get_email_fingerprint(emails[idx])}
    /\ marks' = NoteMarked(marks, get_email_fingerprint(emails[idx]))
    /\ UNCHANGED <<pc, emails, flt_cfg, rc, applied, runs, last_sync_file, now, kb,
                   filterVars, routerVars, searchVars, insertVars>>

\* line 98 raises, lines 116-118
ClassifyRaises ==
    /\ InLoop
    /\ ~is_seen(seen_ids, emails[idx])
    /\ should_process(EmailFilter(flt_cfg), emails[idx].from_addr)
    /\ calls' = [calls EXCEPT !.filter = @ + 1, !.classify = @ + 1]
    /\ counts' = ExceptHandler(counts).counts
    /\ pc' = ExceptHandler(counts).pc
    /\ idx' = idx + 1
    /\ h' = [kind |-> "classify_error", c |-> NoClassification]
    /\ marks' = NoteRaised(marks, get_email_fingerprint(emails[idx]))
    /\ UNCHANGED <<emails, flt_cfg, rc, applied, runs, storeVars, kb,
                   filterVars, routerVars, rejected,
                   searchVars, insertVars>>

\* lines 98-103
ClassifyIgnore(c) ==
    /\ InLoop
    /\ ~is_seen(seen_ids, emails[idx])
    /\ should_process(EmailFilter(flt_cfg), emails[idx].from_addr)
    /\ c.category = "ignore"
    /\ calls' = [calls EXCEPT !.filter = @ + 1, !.classify = @ + 1]
    /\ counts' = [counts EXCEPT !.ignored = @ + 1]
    /\ LET m == mark_seen(seen_ids, seen_file, emails[idx])
       IN  seen_ids' = m.seen_ids /\ seen_file' = m.seen_file
    /\ idx' = idx + 1
    /\ h' = [kind |-> "ignored", c |-> c]
    /\ marks' = NoteMarked(marks, get_email_fingerprint(emails[idx]))
    /\ UNCHANGED <<pc, emails, flt_cfg, rc, applied, runs, last_sync_file, now, kb,
                   filterVars, routerVars, rejected,
                   searchVars, insertVars>>

Route_MarkFirst(c) ==
    /\ InLoop
    /\ ~is_seen(seen_ids, emails[idx])
    /\ should_process(EmailFilter(flt_cfg), emails[idx].from_addr)
    /\ c.category # "ignore"
    /\ calls' = [calls EXCEPT !.filter = @ + 1, !.classify = @ + 1, !.route = @ + 1]
    /\ LET m == mark_seen(seen_ids, seen_file, emails[idx])
       IN  seen_ids' = m.seen_ids /\ seen_file' = m.seen_file
    /\ LET res == route(kb, emails[idx], c)
           ws  == RouteWrites(emails[idx], c)
       IN  /\ kb' = res.tree
           /\ counts' = IF res.modified # <<>>
                        THEN [counts EXCEPT !.new = @ + 1] ELSE counts
           /\ applied' = RecordWrites(applied, emails[idx], ws, Len(ws))
    /\ pc' = "routed"
    /\ h' = [kind |-> "routed", c |-> c]
    /\ UNCHANGED <<marks, emails, idx, flt_cfg, rc, runs, last_sync_file, now, filterVars,
                   routerVars, rejected, searchVars, insertVars>>

\* lines 98-112: classified, routed, route has returned
Route(c) ==
    /\ InLoop
    /\ ~is_seen(seen_ids, emails[idx])
    /\ should_process(EmailFilter(flt_cfg), emails[idx].from_addr)
    /\ c.category # "ignore"
    /\ calls' = [calls EXCEPT !.filter = @ + 1, !.classify = @ + 1, !.route = @ + 1]
    /\ LET res == route(kb, emails[idx], c)
           ws  == RouteWrites(emails[idx], c)
       IN  /\ kb' = res.tree
           /\ counts' = IF res.modified # <<>>
                        THEN [counts EXCEPT !.new = @ + 1] ELSE counts
           /\ applied' = RecordWrites(applied, emails[idx], ws, Len(ws))
    /\ pc' = "routed"
    /\ h' = [kind |-> "routed", c |-> c]
    /\ UNCHANGED <<marks, emails, idx, flt_cfg, rc, runs, storeVars, filterVars,
                   routerVars, rejected,
                   searchVars, insertVars>>

\* line 114
MarkRouted ==
    /\ pc = "routed"
    /\ LET m == mark_seen(seen_ids, seen_file, emails[idx])
       IN  seen_ids' = m.seen_ids /\ seen_file' = m.seen_file
    /\ idx' = idx + 1
    /\ pc' = "loop"
    /\ h' = [h EXCEPT !.kind = "marked"]
    /\ marks' = NoteMarked(marks, get_email_fingerprint(emails[idx]))
    /\ UNCHANGED <<emails, flt_cfg, counts, rc, calls, applied, runs, last_sync_file,
                   now, kb, filterVars, routerVars, rejected,
                   searchVars, insertVars>>

RouteRaises_MarksSeen(c, n) ==
    /\ InLoop
    /\ ~is_seen(seen_ids, emails[idx])
    /\ should_process(EmailFilter(flt_cfg), emails[idx].from_addr)
    /\ c.category # "ignore"
    /\ n <= Len(RouteWrites(emails[idx], c))
    /\ calls' = [calls EXCEPT !.filter = @ + 1, !.classify = @ + 1, !.route = @ + 1]
    /\ kb' = ApplyWrites(kb, emails[idx], c, RouteWrites(emails[idx], c), n - 1)
    /\ applied' = RecordWrites(applied, emails[idx], RouteWrites(emails[idx], c), n - 1)
    /\ counts' = ExceptHandler(counts).counts
    /\ pc' = ExceptHandler(counts).pc
    /\ LET m == mark_seen(seen_ids, seen_file, emails[idx])
       IN  seen_ids' = m.seen_ids /\ seen_file' = m.seen_file
    /\ idx' = idx + 1
    /\ h' = [kind |-> "route_error", c |-> c]
    /\ marks' = NoteRaised(marks, get_email_fingerprint(emails[idx]))
    /\ UNCHANGED <<emails, flt_cfg, rc, runs, last_sync_file, now, filterVars, routerVars,
                   rejected, searchVars, insertVars>>

\* line 106 raises from its n-th file write, lines 116-118
RouteRaises(c, n) ==
    /\ InLoop
    /\ ~is_seen(seen_ids, emails[idx])
    /\ should_process(EmailFilter(flt_cfg), emails[idx].from_addr)
    /\ c.category # "ignore"
    /\ n <= Len(RouteWrites(emails[idx], c))
    /\ calls' = [calls EXCEPT !.filter = @ + 1, !.classify = @ + 1, !.route = @ + 1]
    /\ kb' = ApplyWrites(kb, emails[idx], c, RouteWrites(emails[idx], c), n - 1)
    /\ applied' = RecordWrites(applied, emails[idx], RouteWrites(emails[idx], c), n - 1)
    /\ counts' = ExceptHandler(counts).counts
    /\ pc' = ExceptHandler(counts).pc
    /\ idx' = idx + 1
    /\ h' = [kind |-> "route_error", c |-> c]
    /\ marks' = NoteRaised(marks, get_email_fingerprint(emails[idx]))
    /\ UNCHANGED <<emails, flt_cfg, rc, runs, storeVars, filterVars, routerVars, rejected,
                   searchVars, insertVars>>

Finish_NoStampAfterErrors(t) ==
    /\ pc = "loop"
    /\ idx > Len(emails)
    /\ t \in {now, now + 1}
    /\ now' = t
    /\ last_sync_file' = IF counts.error > 0 THEN last_sync_file
                         ELSE update_last_sync(last_sync_file, t)
    /\ calls' = IF counts.error > 0 THEN calls
                ELSE [calls EXCEPT !.update_last_sync = @ + 1]
    /\ rc' = 0
    /\ pc' = "idle"
    /\ UNCHANGED <<marks, emails, idx, flt_cfg, counts, h, applied, runs, seen_file, seen_ids,
                   kb, filterVars, routerVars, rejected, searchVars, insertVars>>

\* lines 120-128: the loop is over; the clock is read, not before its last reading
Finish(t) ==
    /\ pc = "loop"
    /\ idx > Len(emails)
    /\ t \in {now, now + 1}
    /\ now' = t
    /\ last_sync_file' = update_last_sync(last_sync_file, t)
    /\ calls' = [calls EXCEPT !.update_last_sync = @ + 1]
    /\ rc' = 0
    /\ pc' = "idle"
    /\ UNCHANGED <<marks, emails, idx, flt_cfg, counts, h, applied, runs, seen_file, seen_ids,
                   kb, filterVars, routerVars, rejected,
                   searchVars, insertVars>>

\* cmd_reset --force: SyncState(state_dir).clear()
Reset ==
    /\ pc = "idle"
    /\ runs < MaxRuns
    /\ ~LoadRaises(seen_file)
    /\ runs' = runs + 1
    /\ LET st == clear(_load_state(seen_file), seen_file, last_sync_file)
       IN  /\ seen_ids' = st.seen_ids
           /\ seen_file' = st.seen_file
           /\ last_sync_file' = st.last_sync_file
    /\ rc' = 0
    /\ h' = [kind |-> "reset", c |-> NoClassification]
    /\ rejected' = {}
    /\ marks' = NoMarks
    /\ UNCHANGED <<pc, emails, idx, flt_cfg, counts, calls, applied, now, kb,
                   filterVars, routerVars, searchVars, insertVars>>

Init ==
    /\ kb = EmptyTree
    /\ StoreIdle
    /\ SyncIdle
    /\ FilterIdle
    /\ RouterIdle
    /\ SearchIdle
    /\ InsertIdle

Next ==
    \/ \E batch \in Batches, cfg \in SyncFilterConfigs : StartSync(batch, cfg)
    \/ FetchFails
    \/ SkipSeen
    \/ Filtered
    \/ ClassifyRaises
    \/ \E c \in SyncClassifications : ClassifyIgnore(c)
    \/ \E c \in SyncClassifications : Route(c)
    \/ MarkRouted
    \/ \E c \in SyncClassifications, n \in 1..MaxWritesPerRoute : RouteRaises(c, n)
    \/ \E t \in {now, now + 1} : Finish(t)
    \/ Reset

Spec == Init /\ [][Next]_vars


(***************************************************************************)
(* Store check: the SyncState operations called directly on a state        *)
(* directory that may hold valid, missing or corrupt records.              *)
(***************************************************************************)
SeenFileContents ==
    {FileAbsent, SeenJson({}), SeenJson({get_email_fingerprint(Email1)}),
     Corrupt("badjson"), Corrupt("nokey"), Corrupt("notdict"), Corrupt("badvalue")}

LastSyncFileContents ==
    {FileAbsent, LastSyncJson(0), LastSyncJson(1), Corrupt("badjson"), Corrupt("nokey"),
     Corrupt("badiso"), Corrupt("notdict"), Corrupt("badvalue")}

StoreOp(kind) == [kind |-> kind, c |-> NoClassification]

InitStore ==
    /\ seen_file \in SeenFileContents
    /\ last_sync_file \in LastSyncFileContents
    /\ now = 1
    /\ seen_ids = {}
    /\ SyncIdle
    /\ kb = EmptyTree
    /\ FilterIdle
    /\ RouterIdle
    /\ SearchIdle
    /\ InsertIdle

StoreFrame ==
    UNCHANGED <<flt_cfg, counts, calls, applied, kb, filterVars, routerVars, rejected, marks,
                   searchVars, insertVars>>

\* SyncState(state_dir): lines 15-23
Construct ==
    /\ runs < MaxStoreOps
    /\ ~LoadRaises(seen_file)
    /\ runs' = runs + 1
    /\ seen_ids' = _load_state(seen_file)
    /\ pc' = "store"
    /\ h' = StoreOp("construct")
    /\ UNCHANGED <<seen_file, last_sync_file, now, emails, idx, rc>>
    /\ StoreFrame

ConstructRaises ==
    /\ runs < MaxStoreOps
    /\ LoadRaises(seen_file)
    /\ runs' = runs + 1
    /\ pc' = "idle"
    /\ h' = StoreOp("construct_raised")
    /\ UNCHANGED <<seen_file, last_sync_file, now, seen_ids, emails, idx, rc>>
    /\ StoreFrame

\* state.mark_seen(email)
StoreMarkSeen(email) ==
    /\ pc = "store"
    /\ runs < MaxStoreOps
    /\ runs' = runs + 1
    /\ LET m == mark_seen(seen_ids, seen_file, email)
       IN  seen_ids' = m.seen_ids /\ seen_file' = m.seen_file
    /\ emails' = <<email>>
    /\ idx' = 1
    /\ h' = StoreOp("mark_seen")
    /\ UNCHANGED <<pc, last_sync_file, now, rc>>
    /\ StoreFrame

\* state.get_last_sync(): the value returned is kept in rc
StoreGetLastSync ==
    /\ pc = "store"
    /\ runs < MaxStoreOps
    /\ ~GetLastSyncRaises(last_sync_file)
    /\ runs' = runs + 1
    /\ rc' = get_last_sync(last_sync_file)
    /\ h' = StoreOp("get_last_sync")
    /\ UNCHANGED <<pc, seen_file, last_sync_file, now, seen_ids, emails, idx>>
    /\ StoreFrame

StoreGetLastSyncRaises ==
    /\ pc = "store"
    /\ runs < MaxStoreOps
    /\ GetLastSyncRaises(last_sync_file)
    /\ runs' = runs + 1
    /\ h' = StoreOp("get_last_sync_raised")
    /\ UNCHANGED <<pc, seen_file, last_sync_file, now, seen_ids, emails, idx, rc>>
    /\ StoreFrame

\* state.update_last_sync() at a clock reading not before the last one
StoreUpdateLastSync(t) ==
    /\ pc = "store"
    /\ runs < MaxStoreOps
    /\ t \in {now, now + 1}
    /\ runs' = runs + 1
    /\ now' = t
    /\ last_sync_file' = update_last_sync(last_sync_file, t)
    /\ h' = StoreOp("update_last_sync")
    /\ UNCHANGED <<pc, seen_file, seen_ids, emails, idx, rc>>
    /\ StoreFrame

\* state.clear()
StoreClear ==
    /\ pc = "store"
    /\ runs < MaxStoreOps
    /\ runs' = runs + 1
    /\ LET st == clear(seen_ids, seen_file, last_sync_file)
       IN  /\ seen_ids' = st.seen_ids
           /\ seen_file' = st.seen_file
           /\ last_sync_file' = st.last_sync_file
    /\ h' = StoreOp("clear")
    /\ UNCHANGED <<pc, now, emails, idx, rc>>
    /\ StoreFrame

NextStore ==
    \/ Construct
    \/ ConstructRaises
    \/ \E email \in Emails : StoreMarkSeen(email)
    \/ StoreGetLastSync
    \/ StoreGetLastSyncRaises
    \/ \E t \in {now, now + 1} : StoreUpdateLastSync(t)
    \/ StoreClear

SpecStore == InitStore /\ [][NextStore]_vars

(***************************************************************************)
(* Search check: search_emails on every list of up to MaxCandidates        *)
(* messages with structured queries, and parse_natural_query followed by   *)
(* search_emails on query texts.                                           *)
(***************************************************************************)
MaxCandidates == 3
MaxLimit == 2

\* the reading of datetime.now(timezone.utc) during the search: day 10, 05:00
SearchClock == Days(10) + 5

SamMsg(t) ==
    [message_id |-> "<s1>", from_addr |-> <<"S", "a", "m", " ", "L", "e", "e">>,
     subject |-> <<"B", "u", "d", "g", "e", "t", " ", "r", "e", "v", "i", "e", "w">>, body |-> <<>>,
     date |-> [local |-> t - Days(2), tz |-> "+00:00"]]

AliceMsg(t) ==
    [message_id |-> "<s2>", from_addr |-> <<"A", "l", "i", "c", "e">>,
     subject |-> <<"B", "u", "d", "g", "e", "t">>, body |-> <<>>,
     date |-> [local |-> t - Days(3), tz |-> "+00:00"]]

\* same local reading as SamMsg in another zone: an hour earlier, a later string
SamZoneMsg(t) ==
    [message_id |-> "<s3>", from_addr |-> <<"s", "a", "m">>,
     subject |-> <<"r", "e", "v", "i", "e", "w">>, body |-> <<"B", "u", "d", "g", "e", "t">>,
     date |-> [local |-> t - Days(2), tz |-> "+01:00"]]

\* an old message with a naive date
OldMsg(t) ==
    [message_id |-> "<s4>", from_addr |-> <<"A", "l", "i", "c", "e">>,
     subject |-> <<"r", "e", "v", "i", "e", "w">>, body |-> <<"b", "u", "d", "g", "e", "t">>,
     date |-> [local |-> t - Days(8), tz |-> "naive"]]

SearchCandidates(t) == {SamMsg(t), AliceMsg(t), SamZoneMsg(t), OldMsg(t)}

RECURSIVE ListsUpTo(_, _)
ListsUpTo(S, n) ==
    IF n = 0 THEN {<<>>}
    ELSE LET shorter == ListsUpTo(S, n - 1)
         IN  shorter \union {Append(l, x) : l \in {m \in shorter : Len(m) = n - 1}, x \in S}

SearchQueries(t) ==
    [keywords  : {<<>>, <<<<"b", "u", "d", "g", "e", "t">>>>, <<<<"b", "u", "d", "g", "e", "t">>, <<"r", "e", "v", "i", "e", "w">>>>, <<<<"B", "u", "d", "g", "e", "t">>, <<"b", "u", "d", "g", "e", "t">>>>},
     sender    : {None, <<>>, <<"S", "a", "m">>},
     date_from : {NoDate, UtcNow(t - Days(7)), [local |-> t - Days(2), tz |-> "naive"]},
     date_to   : {NoDate, UtcNow(t - Days(3))},
     limit     : 0..MaxLimit]

\* "emails from Sam last week about budget"
SamQueryText ==
    <<"e", "m", "a", "i", "l", "s", " ", "f", "r", "o", "m", " ", "S", "a", "m",
      " ", "l", "a", "s", "t", " ", "w", "e", "e", "k", " ", "a", "b", "o", "u",
      "t", " ", "b", "u", "d", "g", "e", "t">>

\* "emails from Sam Lee about budget"
SamLeeQueryText ==
    <<"e", "m", "a", "i", "l", "s", " ", "f", "r", "o", "m", " ", "S", "a", "m",
      " ", "L", "e", "e", " ", "a", "b", "o", "u", "t", " ", "b", "u", "d", "g",
      "e", "t">>

\* "from  Sam"
FromSamText ==
    <<"f", "r", "o", "m", " ", " ", "S", "a", "m">>

\* "budget last month"
LastMonthText ==
    <<"b", "u", "d", "g", "e", "t", " ", "l", "a", "s", "t", " ", "m", "o", "n",
      "t", "h">>

\* "last 3 days budget"
LastDaysText ==
    <<"l", "a", "s", "t", " ", "3", " ", "d", "a", "y", "s", " ", "b", "u", "d",
      "g", "e", "t">>

\* "today's budget"
TodayText ==
    <<"t", "o", "d", "a", "y", "'", "s", " ", "b", "u", "d", "g", "e", "t">>

\* "find budget review yesterday"
YesterdayText ==
    <<"f", "i", "n", "d", " ", "b", "u", "d", "g", "e", "t", " ", "r", "e", "v",
      "i", "e", "w", " ", "y", "e", "s", "t", "e", "r", "d", "a", "y">>

QueryTexts ==
    {SamQueryText, SamLeeQueryText, FromSamText, LastMonthText, LastDaysText, TodayText,
     YesterdayText}

InitSearch ==
    /\ s_emails \in ListsUpTo(SearchCandidates(SearchClock), MaxCandidates)
    /\ s_text = <<>>
    /\ s_query = NoQuery
    /\ s_out = NotSearched
    /\ now = SearchClock
    /\ seen_file = FileAbsent
    /\ last_sync_file = FileAbsent
    /\ seen_ids = {}
    /\ kb = EmptyTree
    /\ SyncIdle
    /\ FilterIdle
    /\ RouterIdle
    /\ InsertIdle

SearchFrame ==
    UNCHANGED <<s_emails, kb, filterVars, routerVars, storeVars, syncVars, insertVars>>

\* search_emails(emails, query) with a SearchQuery built by the caller
SearchDirect(query) ==
    /\ s_out = NotSearched
    /\ s_query' = query
    /\ s_out' = [ran |-> TRUE, results |-> search_emails(s_emails, query)]
    /\ UNCHANGED s_text
    /\ SearchFrame

\* parse_natural_query(text), then search_emails with the query it returns
SearchText(text) ==
    /\ s_out = NotSearched
    /\ s_text' = text
    /\ s_query' = parse_natural_query(text, now)
    /\ s_out' = [ran |-> TRUE,
                 results |-> search_emails(s_emails, parse_natural_query(text, now))]
    /\ SearchFrame

NextSearch ==
    \/ \E query \in SearchQueries(now) : SearchDirect(query)
    \/ \E text \in QueryTexts : SearchText(text)

SpecSearch == InitSearch /\ [][NextSearch]_vars

(***************************************************************************)
(* Insert check: _insert_into_section called up to MaxInserts times on     *)
(* work.md, from every file of up to MaxFileLines lines (and from no file) *)
(***************************************************************************)
MaxFileLines == 3
MaxInserts == 3

\* lines a hand-edited file may hold: the header, the header indented, the
\* header inside a longer line, another header, an item, a blank line
FileLines ==
    {TODO_HEADER, <<" ", "## TODO", " ">>, <<"## TODO", " list">>, INTERACTIONS_HEADER,
     <<"- old">>, BlankLine}

\* the split('\n') view of a file's text has at least one line
InitialFiles == ListsUpTo(FileLines, MaxFileLines) \ {<<>>}

\* the task lines _add_to_work passes as content
InsertContents ==
    {<<_format_task_line(c)>> :
        c \in {x \in Classifications : x.category = "work_task" /\ Len(x.people) # 1}}

InitInsert ==
    /\ \/ i_init \in InitialFiles /\ kb = WriteFile(EmptyTree, work_file, i_init)
       \/ i_init = <<>> /\ kb = EmptyTree
    /\ i_added = <<>>
    /\ StoreIdle
    /\ SyncIdle
    /\ FilterIdle
    /\ RouterIdle
    /\ SearchIdle

\* self._insert_into_section(self.work_file, "## TODO", task_line)
Insert(content) ==
    /\ Len(i_added) < MaxInserts
    /\ kb' = _insert_into_section(kb, work_file, TODO_HEADER, content)
    /\ i_added' = Append(i_added, content)
    /\ UNCHANGED <<i_init, filterVars, routerVars, storeVars, syncVars, searchVars>>

NextInsert == \E content \in InsertContents : Insert(content)

SpecInsert == InitInsert /\ [][NextInsert]_vars


(***************************************************************************)
(* Filter claims                                                           *)
(***************************************************************************)
DomainRuleHit(flt, raw_from) ==
    LET domain == _extract_domain(_extract_email(Lower(raw_from)))
    IN  Truthy(domain) /\ domain \in flt.domains

AddressRuleHit(flt, raw_from) ==
    LET email_addr == _extract_email(Lower(raw_from))
    IN  Truthy(email_addr) /\ email_addr \in flt.addresses

PatternRuleHit(flt, raw_from) ==
    \E i \in 1..Len(flt.patterns) : PatternSearch(flt.patterns[i], Lower(raw_from))

FirstPatternHit(flt, raw_from) ==
    flt.patterns[CHOOSE i \in 1..Len(flt.patterns) :
        /\ PatternSearch(flt.patterns[i], Lower(raw_from))
        /\ \A k \in 1..(i - 1) : ~PatternSearch(flt.patterns[k], Lower(raw_from))]

\* C9: get_reason is consistent with should_process. The reason is "no match"
\* exactly when no domain, address or pattern rule matches; in blocklist mode
\* the message is rejected exactly when the reason is not "no match"; in
\* allowlist mode it is processed exactly when the reason is not "no match";
\* and the reason names the first rule hit in the order domain, address,
\* pattern (patterns in list order).
C9_ReasonConsistent ==
    f_out.ran =>
        LET flt  == EmailFilter(f_cfg)
            dom  == DomainRuleHit(flt, f_from)
            addr == AddressRuleHit(flt, f_from)
            pat  == PatternRuleHit(flt, f_from)
        IN  /\ (f_out.reason = NoMatch) <=> ~(dom \/ addr \/ pat)
            /\ flt.mode = "blocklist" => (~f_out.process <=> f_out.reason # NoMatch)
            /\ flt.mode = "allowlist" => (f_out.process <=> f_out.reason # NoMatch)
            /\ dom => f_out.reason =
                  [kind |-> "domain",
                   text |-> _extract_domain(_extract_email(Lower(f_from)))]
            /\ (~dom /\ addr) => f_out.reason =
                  [kind |-> "address", text |-> _extract_email(Lower(f_from))]
            /\ (~dom /\ ~addr /\ pat) => f_out.reason =
                  [kind |-> "pattern", text |-> FirstPatternHit(flt, f_from)]

\* C9 witness: a blocklist decision on a sender that hits a domain rule, an
\* address rule and a pattern rule at once, rejected with the domain reason.
C9_Witness ==
    /\ f_out.ran
    /\ f_cfg.mode = "blocklist"
    /\ DomainRuleHit(EmailFilter(f_cfg), f_from)
    /\ AddressRuleHit(EmailFilter(f_cfg), f_from)
    /\ PatternRuleHit(EmailFilter(f_cfg), f_from)
    /\ ~f_out.process
    /\ f_out.reason.kind = "domain"

(***************************************************************************)
(* Router claims                                                           *)
(***************************************************************************)
\* a is a subsequence of b: the lines of a occur in b in the same order
RECURSIVE IsSubseq(_, _)
IsSubseq(a, b) ==
    IF a = <<>> THEN TRUE
    ELSE IF b = <<>> THEN FALSE
    ELSE IF Head(a) = Head(b) THEN IsSubseq(Tail(a), Tail(b))
    ELSE IsSubseq(a, Tail(b))

\* the paths whose file the latest route call created or changed
ChangedPaths ==
    {p \in DOMAIN kb : p \notin DOMAIN r_call.before \/ kb[p] # r_call.before[p]}

RoutedCategories ==
    {"work_task", "personal_task", "home_task", "person_info", "knowledge", "log_entry"}

\* C6 (as claimed): a route call that returns normally for any of the six
\* routed categories, with any people list, returns at least one path.
C6_AtLeastOnePath ==
    (r_call.called /\ ~r_call.raised /\ r_call.c.category \in RoutedCategories)
        => Len(r_call.modified) >= 1

\* C7: router writes are append/insert-only. After every route call, whether
\* it returned or raised part-way, every file that existed before the call
\* still exists and its earlier lines are all present in the same order.
C7_InsertOnly ==
    r_call.called =>
        \A p \in DOMAIN r_call.before :
            /\ p \in DOMAIN kb
            /\ IsSubseq(r_call.before[p], kb[p])

\* C7 witness: the last of MaxRouteCalls calls returned after inserting below
\* a section header found in a file that already held other lines.
C7_Witness ==
    /\ r_call.called
    /\ ~r_call.raised
    /\ r_calls = MaxRouteCalls
    /\ \E p \in DOMAIN r_call.before :
          /\ SectionIndexes(r_call.before[p], TODO_HEADER) # {}
          /\ Len(r_call.before[p]) > 3
          /\ Len(kb[p]) > Len(r_call.before[p])

\* C8 (as claimed): the list route returns holds every path whose file the
\* call created or changed.
C8_ReturnsEveryTouchedPath ==
    (r_call.called /\ ~r_call.raised) => ChangedPaths \subseteq Range(r_call.modified)

(***************************************************************************)
(* Sync claims                                                             *)
(***************************************************************************)
\* C1 (as claimed): over any sequence of sync runs, also when routing raises
\* and the message is retried, no message contributes the same line or block
\* to the same file more than once.
C1_AtMostOnce == \A k \in DOMAIN applied : applied[k] <= 1

\* C3: a message whose fingerprint is in the seen set when the loop reaches it
\* is skipped: no filter, classifier or router call, no counter change, the
\* seen set, its file and the knowledge base unchanged; the loop moves on.
C3_SeenSkipped ==
    [][(InLoop /\ get_email_fingerprint(emails[idx]) \in seen_ids)
          => /\ calls' = calls
             /\ counts' = counts
             /\ seen_ids' = seen_ids
             /\ seen_file' = seen_file
             /\ kb' = kb
             /\ pc' = "loop"
             /\ idx' = idx + 1]_vars

\* C3 witness: in a first run, the repeated message of a batch was skipped
\* after its first occurrence had been handled and marked seen.
C3_Witness ==
    /\ h.kind = "skipped"
    /\ runs = 1
    /\ idx = 4
    /\ kb # EmptyTree
    /\ get_email_fingerprint(emails[3]) \in seen_ids

LastSyncLeq(a, b) == a = NoTime \/ (b # NoTime /\ a <= b)

C5_IgnoreNoMutation ==
    /\ [](\A email \in Emails, c \in Classifications :
            c.category = "ignore" => route(kb, email, c) = [tree |-> kb, modified |-> <<>>])
    /\ [][(h'.c.category = "ignore" /\ (idx' = idx + 1 \/ pc' = "routed"))
            => /\ h'.kind = "ignored"
               /\ calls'.route = calls.route
               /\ kb' = kb
               /\ counts' = [counts EXCEPT !.ignored = @ + 1]]_vars

\* C5 witness: a message classified "ignore" with a person named was counted
\* as ignored while the tree already held files.
C5_Witness ==
    /\ h.kind = "ignored"
    /\ h.c.people # <<>>
    /\ counts.ignored = 1
    /\ kb # EmptyTree

\* C10: an exception from the classifier or the router for one message adds
\* exactly one to the error counter and the loop goes on with the next message
\* of the same batch; a run in which messages failed still handles the whole
\* batch and returns 0.
C10_ErrorDoesNotStopBatch ==
    /\ [][(h'.kind \in {"classify_error", "route_error"} /\ idx' = idx + 1)
            => /\ counts' = [counts EXCEPT !.error = @ + 1]
               /\ pc' = "loop"
               /\ emails' = emails]_vars
    /\ []((counts.error > 0 /\ pc # "loop" /\ pc # "routed")
            => (pc = "idle" /\ rc = 0 /\ idx = Len(emails) + 1))

\* C10 witness: a finished run that counted a classifier or router error and
\* routed and marked a later message of the batch.
C10_Witness ==
    /\ pc = "idle"
    /\ rc = 0
    /\ counts.error >= 1
    /\ counts.new >= 1
    /\ h.kind = "marked"
    /\ idx = Len(emails) + 1

(***************************************************************************)
(* Store claims                                                            *)
(***************************************************************************)
\* C2: once mark_seen(m) has returned, is_seen(m) is true on the same object
\* and on a SyncState constructed afterwards on the same directory: the
\* persisted fingerprint set loads without error and equals the in-memory set.
C2_MarkSeenDurable ==
    (pc = "store" /\ h.kind = "mark_seen") =>
        /\ is_seen(seen_ids, emails[idx])
        /\ ~LoadRaises(seen_file)
        /\ is_seen(_load_state(seen_file), emails[idx])
        /\ _load_state(seen_file) = seen_ids

\* C2 witness: a message without a Message-ID was marked seen on a store that
\* already held another fingerprint.
C2_Witness ==
    /\ pc = "store"
    /\ h.kind = "mark_seen"
    /\ emails[idx] = Email3
    /\ Cardinality(seen_ids) >= 2
    /\ runs = MaxStoreOps

\* C12: after clear(), from any prior state of the object and of both files,
\* get_stats reports total_processed 0 and no last_sync, get_last_sync returns
\* nothing (and does not raise), and the seen file loads, without error, as
\* the empty set.
C12_ClearResets ==
    (pc = "store" /\ h.kind = "clear") =>
        /\ get_stats(seen_ids, last_sync_file) = [total_processed |-> 0, last_sync |-> None]
        /\ ~GetLastSyncRaises(last_sync_file)
        /\ get_last_sync(last_sync_file) = NoTime
        /\ ~LoadRaises(seen_file)
        /\ _load_state(seen_file) = {}

\* C12 witness: clear() on a store that had a marked message and a last-sync
\* timestamp written by this object.
C12_Witness ==
    /\ pc = "store"
    /\ h.kind = "clear"
    /\ emails # <<>>
    /\ now > 1
    /\ runs = MaxStoreOps

\* C13: whatever the seen file and the last-sync file hold, constructing a
\* SyncState and calling get_last_sync never raise; content that is not a
\* valid record loads as the empty set and as no last sync.
C13_CorruptStateNeverFatal ==
    /\ h.kind \notin {"construct_raised", "get_last_sync_raised"}
    /\ (h.kind = "construct" /\ seen_file.kind # "json") => seen_ids = {}
    /\ (h.kind = "get_last_sync" /\ last_sync_file.kind # "json") => rc = NoTime

(***************************************************************************)
(* Search claims                                                           *)
(***************************************************************************)
\* keyword occurs in text, letter case set aside
Occurs(keyword, text) == Contains(Lower(text), Lower(keyword))

\* the score the claim gives: 2 per keyword found in the subject plus 1 per
\* keyword found in the body; 1 when there are no keywords
ClaimedScore(email, query) ==
    IF query.keywords = <<>> THEN 1
    ELSE 2 * Cardinality({k \in DOMAIN query.keywords : Occurs(query.keywords[k], email.subject)})
           + Cardinality({k \in DOMAIN query.keywords : Occurs(query.keywords[k], email.body)})

\* the candidates the claim selects: sender and date filters passed, score > 0
ClaimedHits(emails_, query) ==
    {i \in DOMAIN emails_ :
        /\ (query.sender \in {None, <<>>} \/ Occurs(query.sender, emails_[i].from_addr))
        /\ (query.date_from = NoDate
              \/ _normalize_datetime(emails_[i].date) >= _normalize_datetime(query.date_from))
        /\ (query.date_to = NoDate
              \/ _normalize_datetime(emails_[i].date) <= _normalize_datetime(query.date_to))
        /\ ClaimedScore(emails_[i], query) > 0}

\* a comes strictly before b: higher score, or equal score and smaller date string
ClaimedBefore(a, b) ==
    \/ a.relevance_score > b.relevance_score
    \/ a.relevance_score = b.relevance_score /\ IsoTextLess(a.date, b.date)

C15_SamLastWeekBudget ==
    (s_out.ran /\ s_text = SamQueryText) =>
        /\ s_query.sender = <<"s", "a", "m">>
        /\ s_query.keywords = <<<<"b", "u", "d", "g", "e", "t">>>>
        /\ s_query.date_from = UtcNow(now - Days(7))
        /\ s_emails = <<SamMsg(now), AliceMsg(now)>>
              => s_out.results = <<SearchResult(SamMsg(now), 2)>>

(***************************************************************************)
(* Sync claims: fetch failure, outcomes, ordering                          *)
(***************************************************************************)
\* C11: when the fetch fails the run aborts before any message is handled:
\* the step that takes the failure invokes neither filter, classifier, router
\* nor update_last_sync, leaves the persisted seen set, the last-sync file
\* and the tree as they were, and returns a nonzero code; nothing of the run
\* follows it.
C11_FetchFailureAborts ==
    /\ [][(h'.kind = "fetch_failed" /\ runs' = runs + 1)
            => /\ calls' = ZeroCalls
               /\ counts' = ZeroCounts
               /\ seen_file' = seen_file
               /\ last_sync_file' = last_sync_file
               /\ kb' = kb
               /\ applied' = applied
               /\ rc' # 0
               /\ pc' = "idle"]_vars
    /\ [](h.kind = "fetch_failed" => (pc = "idle" /\ rc # 0 /\ calls = ZeroCalls))

\* C11 witness: the fetch of a second run failed after a first run had
\* marked messages and written files.
C11_Witness ==
    /\ h.kind = "fetch_failed"
    /\ runs = MaxRuns
    /\ rc = 1
    /\ _load_state(seen_file) # {}
    /\ get_last_sync(last_sync_file) # NoTime
    /\ kb # EmptyTree

\* C16: write-then-mark. A step that changes a knowledge-base file leaves the
\* seen file as it was and belongs to a message whose fingerprint is not in
\* the persisted seen set; the fingerprint of a routed message enters the
\* persisted set only in a step taken after route has returned, with every
\* write of the call in place; so whenever route has returned and mark_seen
\* has not yet run, the message is still unmarked on disk.
C16_WriteThenMark ==
    /\ [][kb' # kb
            => /\ seen_file' = seen_file
               /\ get_email_fingerprint(emails[idx]) \notin _load_state(seen_file)]_vars
    /\ [][(_load_state(seen_file') # _load_state(seen_file)
             /\ h'.kind \notin {"filtered", "ignored", "reset"})
            => /\ pc = "routed"
               /\ h.kind = "routed"
               /\ kb' = kb
               /\ \A i \in 1..Len(RouteWrites(emails[idx], h.c)) :
                     WriteKey(emails[idx], RouteWrites(emails[idx], h.c)[i])
                         \in DOMAIN applied]_vars
    /\ [](pc = "routed"
            => get_email_fingerprint(emails[idx]) \notin _load_state(seen_file))

\* C16 witness: route has returned from writing two files for a message and
\* mark_seen has not run yet.
C16_Witness ==
    /\ pc = "routed"
    /\ Len(RouteWrites(emails[idx], h.c)) = MaxWritesPerRoute
    /\ kb # EmptyTree
    /\ get_email_fingerprint(emails[idx]) \notin _load_state(seen_file)

\* C17: at the end of a run new + filtered + ignored + error equals the
\* number of messages that were not skipped as seen, which is the number of
\* times the filter was consulted (line 89 is reached by exactly those).
C17_OneOutcomePerMessage ==
    (pc = "idle" /\ rc = 0) =>
        counts.new + counts.filtered + counts.ignored + counts.error = calls.filter

\* C18: a message the filter rejects is marked seen (in memory and on disk)
\* and counted as filtered without the classifier or the router being called;
\* when it comes up again, in this run or a later one on the same store and
\* under any filter configuration, the step taken on it calls nothing and
\* changes neither counters nor files. rejected holds the fingerprints
\* rejected since the store was last cleared.
C18_FilteredNeverClassified ==
    /\ [][(h'.kind = "filtered" /\ idx' = idx + 1)
            => /\ get_email_fingerprint(emails[idx]) \in seen_ids'
               /\ get_email_fingerprint(emails[idx]) \in _load_state(seen_file')
               /\ counts' = [counts EXCEPT !.filtered = @ + 1]
               /\ calls'.classify = calls.classify
               /\ calls'.route = calls.route
               /\ kb' = kb]_vars
    /\ [][(InLoop /\ get_email_fingerprint(emails[idx]) \in rejected)
            => /\ calls' = calls
               /\ counts' = counts
               /\ kb' = kb
               /\ seen_file' = seen_file]_vars
    /\ [](rejected \subseteq _load_state(seen_file))

\* C18 witness: in a later run whose configuration would let the message
\* through, a message rejected by an earlier run was skipped.
C18_Witness ==
    /\ runs = MaxRuns
    /\ h.kind = "skipped"
    /\ idx > 1
    /\ idx <= Len(emails) + 1
    /\ get_email_fingerprint(emails[idx - 1]) \in rejected
    /\ should_process(EmailFilter(flt_cfg), emails[idx - 1].from_addr)
    /\ calls.filter = 0

\* C19: in a run whose fetch succeeded update_last_sync is called exactly
\* once, after the last message: never while the loop is running, only from
\* the end of the batch, and a finished run has called it once whatever the
\* outcomes of its messages.
C19_LastSyncOncePerRun ==
    /\ [](pc \in {"loop", "routed"} => calls.update_last_sync = 0)
    /\ [][calls'.update_last_sync > calls.update_last_sync
            => /\ pc = "loop"
               /\ idx = Len(emails) + 1
               /\ calls.update_last_sync = 0
               /\ calls'.update_last_sync = 1
               /\ last_sync_file' = LastSyncJson(now')]_vars
    /\ [][(pc = "loop" /\ pc' = "idle")
            => (rc' = 0 /\ calls'.update_last_sync = 1)]_vars
    /\ []((pc = "idle" /\ rc = 0 /\ h.kind \notin {"reset", "none"})
            => calls.update_last_sync = 1)

\* C19 witness: a run of at least two messages in which every message
\* errored has finished.
C19_Witness ==
    /\ pc = "idle"
    /\ rc = 0
    /\ Len(emails) >= 2
    /\ counts.error = Len(emails)
    /\ calls.update_last_sync = 1

(***************************************************************************)
(* Insert claims                                                           *)
(***************************************************************************)
Occurrences(line, lines) == Cardinality({k \in DOMAIN lines : lines[k] = line})

\* the lines inserted so far, in call order (each content is one line)
AddedLines == [k \in DOMAIN i_added |-> i_added[k][1]]

\* C20: after N inserts into the "## TODO" section of a file that had a
\* header line before the first insert, every line occurs as often as it did
\* before plus as often as it was inserted (so all N new lines are there, the
\* same content inserted twice is there twice, and nothing earlier is lost),
\* the earlier lines keep their order, and the number of header lines is what
\* it was.
C20_InsertAccumulates ==
    (i_init # <<>> /\ SectionIndexes(i_init, TODO_HEADER) # {}) =>
        LET file == kb[work_file]
        IN  /\ Len(file) = Len(i_init) + Len(i_added)
            /\ \A line \in Range(file) \union Range(i_init) \union Range(AddedLines) :
                  Occurrences(line, file)
                      = Occurrences(line, i_init) + Occurrences(line, AddedLines)
            /\ IsSubseq(i_init, file)
            /\ Occurrences(TODO_HEADER, file) = Occurrences(TODO_HEADER, i_init)
            /\ Cardinality(SectionIndexes(file, TODO_HEADER))
                  = Cardinality(SectionIndexes(i_init, TODO_HEADER))

\* C20 witness: MaxInserts inserts, the first two with the same content, into
\* a file of MaxFileLines lines that holds the header twice.
C20_Witness ==
    /\ Len(i_added) = MaxInserts
    /\ i_added[1] = i_added[2]
    /\ i_added[MaxInserts] # i_added[1]
    /\ Len(i_init) = MaxFileLines
    /\ Occurrences(TODO_HEADER, i_init) = 2
    /\ Occurrences(i_added[1][1], kb[work_file]) = 2

\* the inserted lines, latest first
RECURSIVE Reversed(_)
Reversed(lines) ==
    IF lines = <<>> THEN <<>>
    ELSE <<lines[Len(lines)]>> \o Reversed(SubSeq(lines, 1, Len(lines) - 1))

\* work.md after the inserts so far, given the lines "at" that count as the
\* section header in the file as it was: inserted lines stand latest first
\* right after the first of them; without a file the file is created as
\* title, blank line, header, content; without a header line a blank line,
\* the header and the content are appended and later content follows that
\* header.
PlacedAfter(at) ==
    IF i_added = <<>> THEN i_init
    ELSE IF i_init = <<>>
    THEN <<<<"# ", "Work">>, BlankLine, TODO_HEADER>> \o Reversed(AddedLines) \o <<BlankLine>>
    ELSE IF at # {}
    THEN LET first == CHOOSE j \in at : \A k \in at : j <= k
         IN  SubSeq(i_init, 1, first) \o Reversed(AddedLines)
                 \o SubSeq(i_init, first + 1, Len(i_init))
    ELSE i_init \o <<BlankLine, TODO_HEADER>> \o Reversed(AddedLines)

\* C21 as stated: the header is found as a line exactly equal to "## TODO".
\* With such a line the content becomes the line right after the first one
\* (after c1 then c2: header, c2, c1); with no file the file is created with
\* title, header and content; with a file that has no such line, a blank
\* line, the header and the content are appended.
C21_InsertPlacement_ExactHeader ==
    (i_init # <<>> \/ i_added # <<>>) =>
        kb[work_file] = PlacedAfter({j \in DOMAIN i_init : i_init[j] = TODO_HEADER})

\* C21 amended: the header is found as the first line that equals "## TODO"
\* once leading and trailing whitespace is stripped; placement as above.
C21_InsertPlacement ==
    (i_init # <<>> \/ i_added # <<>>) =>
        kb[work_file] = PlacedAfter({j \in DOMAIN i_init : Strip(i_init[j]) = TODO_HEADER})

\* C21 witness: two different contents were inserted into a file whose first
\* header line is indented and which holds an exact header line further down.
C21_Witness ==
    /\ Len(i_added) >= 2
    /\ i_added[1] # i_added[2]
    /\ Len(i_init) = MaxFileLines
    /\ i_init[1] = <<" ", "## TODO", " ">>
    /\ i_init[MaxFileLines] = TODO_HEADER
    /\ kb[work_file][2] = i_added[Len(i_added)][1]

(***************************************************************************)
(* Seen-set accounting of a sync run                                       *)
(***************************************************************************)

\* the seen set a run ends with when it started from marks.start
SeenAfterRun == marks.start \union marks.marked

\* the message the loop is about to handle raised before and has not been
\* handled without exception since
RetryDue == InLoop /\ get_email_fingerprint(emails[idx]) \in marks.raised

\* C22: at the end of a sync run that returns 0 (and at every point of a
\* run) the seen set, in memory and on disk, is the seen set the run started
\* from plus the fingerprints of exactly the messages the run filtered,
\* classified as ignore, or routed without exception; a step in which the
\* classification or the routing raises leaves the seen set alone even when
\* it wrote files, so a message that raised and was not handled without
\* exception since is not in the seen set on disk; and when a later fetch
\* returns such a message it is not skipped: the filter is consulted again
\* and, when the filter lets it through, it is classified again and, unless
\* classified as ignore or the classifier raises, routed again.
C22_SeenSetAccounting ==
    /\ [](runs > 0 => /\ seen_ids = SeenAfterRun
                      /\ _load_state(seen_file) = SeenAfterRun)
    /\ [](marks.raised \cap _load_state(seen_file) = {})
    /\ [][h'.kind \in {"classify_error", "route_error"} /\ idx' = idx + 1
              => seen_ids' = seen_ids /\ seen_file' = seen_file]_vars
    /\ [][RetryDue =>
              /\ h'.kind \in {"filtered", "classify_error", "ignored", "routed",
                               "route_error"}
              /\ calls'.filter = calls.filter + 1
              /\ should_process(EmailFilter(flt_cfg), emails[idx].from_addr) =>
                     /\ calls'.classify = calls.classify + 1
                     /\ h'.kind \in {"routed", "route_error"} =>
                            calls'.route = calls.route + 1]_vars

\* C22 witness: the second run has routed, and is about to mark, a message
\* whose routing raised in the first run after it had written a file; the
\* first run marked another message.
C22_Witness ==
    /\ runs = MaxRuns
    /\ pc = "routed"
    /\ get_email_fingerprint(emails[idx]) \in marks.raised
    /\ get_email_fingerprint(emails[idx]) \notin _load_state(seen_file)
    /\ marks.start # {}
    /\ RouteWrites(emails[idx], h.c) # <<>>
    /\ \E k \in DOMAIN applied :
           k = WriteKey(emails[idx], RouteWrites(emails[idx], h.c)[1]) /\ applied[k] >= 2

====
